---- MODULE Spec2Model ----
(***************************************************************************)
(* Model of the event-analysis pipeline of StripeLens (src/main.py):       *)
(* explain_event hands the request body to analyze_stripe_event, which     *)
(* extracts metadata, calls the completion service once, parses and        *)
(* normalises its answer, and computes a rule-based fallback in its        *)
(* except-handler.                                                         *)
(*                                                                         *)
(* Python strings are sequences of characters; JSON values are tagged      *)
(* records [k |-> kind, v |-> payload].                                    *)
(***************************************************************************)
EXTENDS Integers, Sequences, FiniteSets, TLC

(***************************************************************************)
(* Bounds                                                                  *)
(***************************************************************************)
\* an event's type string is a concatenation of at most MaxSegs segments
MaxSegs == 2

(***************************************************************************)
(* String literals of the program                                          *)
(***************************************************************************)
UNKNOWN_TYPE == <<"u","n","k","n","o","w","n","_","t","y","p","e">>
UNKNOWN_ID == <<"u","n","k","n","o","w","n","_","i","d">>
PAYMENT_FAILED == <<"p","a","y","m","e","n","t","_","f","a","i","l","e","d">>
DISPUTE == <<"d","i","s","p","u","t","e">>
INVOICE_UPCOMING == <<"i","n","v","o","i","c","e",".","u","p","c","o","m","i","n","g">>
LOW == <<"l","o","w">>
MEDIUM == <<"m","e","d","i","u","m">>
HIGH == <<"h","i","g","h">>
ImpactLevels == {LOW, MEDIUM, HIGH}
CUSTOMER_IMPACT_LEVEL == <<"c","u","s","t","o","m","e","r","_","i","m","p","a","c","t","_","l","e","v","e","l">>
SummaryPrefix == <<"Received event ">>
SummarySuffix == <<". Automated analysis unavailable.">>
ROOT_CAUSE_NA == <<"N/A (LLM unavailable)">>
CHECK_DASHBOARD == <<"Check Stripe Dashboard manually.">>

(***************************************************************************)
(* JSON values as Python sees them after json parsing                      *)
(***************************************************************************)
JStr(s) == [k |-> "str", v |-> s]
JNull == [k |-> "null", v |-> <<>>]
JNum == [k |-> "num", v |-> <<"5">>]
JBool == [k |-> "bool", v |-> <<"true">>]
JList(items) == [k |-> "list", v |-> items]
JObj(f) == [k |-> "obj", v |-> f]
EmptyDict == JObj([x \in {} |-> JNull])
\* the outcome of an expression that raised instead of producing a value
RAISED == [k |-> "raise", v |-> <<>>]

\* dict.get(key, default); on a value that is not a dict the attribute
\* lookup itself raises AttributeError
Get(d, key, default) ==
    IF d.k # "obj" THEN RAISED
    ELSE IF key \in DOMAIN d.v THEN d.v[key] ELSE default

\* value[key] with a string key
SubKey(d, key) ==
    IF d.k = "obj" /\ key \in DOMAIN d.v THEN d.v[key] ELSE RAISED

\* value[i] with an integer index (0-based in the program)
SubIdx(d, i) ==
    IF d.k = "list" /\ i + 1 \in DOMAIN d.v THEN d.v[i + 1]
    ELSE RAISED

\* needle in haystack, for two Python strings
Contains(needle, s) ==
    \E i \in 1..(Len(s) - Len(needle) + 1) :
        SubSeq(s, i, i + Len(needle) - 1) = needle

\* the operator `in` raises TypeError on a right operand that is no container
InRaises(x) == x.k \in {"null", "num", "bool"}

\* `needle in x` for a string needle whose dict-key spelling is keyname
In(needle, keyname, x) ==
    CASE x.k = "str" -> Contains(needle, x.v)
      [] x.k = "list" -> \E i \in DOMAIN x.v : x.v[i] = JStr(needle)
      [] x.k = "obj" -> keyname \in DOMAIN x.v
      [] OTHER -> FALSE

UPPER == <<"A","B","C","D","E","F","G","H","I","J","K","L","M","N","O","P","Q","R","S","T","U","V","W","X","Y","Z">>
LOWER == <<"a","b","c","d","e","f","g","h","i","j","k","l","m","n","o","p","q","r","s","t","u","v","w","x","y","z">>

\* str.lower()
Lower(s) ==
    [i \in DOMAIN s |->
        IF \E j \in DOMAIN UPPER : UPPER[j] = s[i]
        THEN LOWER[CHOOSE j \in DOMAIN UPPER : UPPER[j] = s[i]]
        ELSE s[i]]

\* str(x) as an f-string renders it
Format(x) ==
    CASE x.k = "str" -> x.v
      [] x.k = "null" -> <<"N","o","n","e">>
      [] x.k = "list" -> IF x.v = <<>> THEN <<"[","]">>
                         ELSE <<"[","'">> \o x.v[1].v \o <<"'","]">>
      [] OTHER -> x.v

(***************************************************************************)
(* Inputs: request bodies and answers of the completion service            *)
(***************************************************************************)
PING == <<"p","i","n","g">>
CHARGE_DOT == <<"c","h","a","r","g","e",".">>
Segments == {INVOICE_UPCOMING, PAYMENT_FAILED, DISPUTE, PING, CHARGE_DOT}

RECURSIVE Concat(_)
Concat(ss) == IF ss = <<>> THEN <<>> ELSE Head(ss) \o Concat(Tail(ss))

TypeStrings == {Concat(ss) : ss \in UNION {[1..n -> Segments] : n \in 0..MaxSegs}}

\* values a request body may carry under "type"
TypeValues ==
    {JStr(s) : s \in TypeStrings}
        \cup {JNull, JNum, JList(<<>>), JList(<<JStr(PAYMENT_FAILED)>>)}

IN_12345 == <<"i","n","_","1","2","3","4","5">>

\* values a request body may carry under "data" -> "object"
ObjectValues ==
    {JNull, JStr(PING), JNum, JList(<<>>), EmptyDict,
     JObj([id |-> JStr(IN_12345)])}

\* values a request body may carry under "data"
DataValues ==
    {JNull, JStr(PING), JNum, JList(<<>>), EmptyDict}
        \cup {JObj([object |-> o]) : o \in ObjectValues}

\* request bodies: JSON objects in which "type" and "data" are optional
Events ==
    {EmptyDict}
        \cup {JObj([type |-> t]) : t \in TypeValues}
        \cup {JObj([data |-> d]) : d \in DataValues}
        \cup {JObj([type |-> t, data |-> d]) : t \in TypeValues, d \in DataValues}

\* the process environment: variable unset, set to "", set to a key
ApiKeys == {JNull, JStr(<<>>), JStr(<<"s","k">>)}

\* a key that is not in the object
ABSENT == [k |-> "absent", v |-> <<>>]

OTHER_TYPE == <<"c","h","a","r","g","e",".","s","u","c","c","e","e","d","e","d">>

\* impact levels the service may put in its answer
LevelValues ==
    {ABSENT, JNum, JNull,
     JStr(<<"H","I","G","H">>), JStr(<<"H","I","G","H"," ">>),
     JStr(<<"C","r","i","t","i","c","a","l">>),
     JStr(<<"c","r","i","t","i","c","a","l">>), JStr(LOW), JStr(MEDIUM)}

\* the JSON object of an answer: et and lvl may be ABSENT, full tells
\* whether the three remaining schema keys are there
ObjDoc(et, lvl, full) ==
    LET keys == (IF et = ABSENT THEN {} ELSE {"event_type"})
                \cup (IF lvl = ABSENT THEN {} ELSE {"customer_impact_level"})
                \cup (IF full THEN {"summary", "root_cause", "recommended_actions"}
                      ELSE {})
    IN JObj([key \in keys |->
              CASE key = "event_type" -> et
                [] key = "customer_impact_level" -> lvl
                [] key = "summary" -> JStr(<<"S">>)
                [] key = "root_cause" -> JStr(<<"R">>)
                [] key = "recommended_actions" -> JList(<<JStr(<<"A">>)>>)])

\* JSON documents the service may write as its answer; echo is the event
\* type the prompt asked it to repeat
Docs(echo) ==
    {ObjDoc(et, lvl, TRUE) : et \in {ABSENT, echo, JStr(OTHER_TYPE)}, lvl \in LevelValues}
        \cup {ObjDoc(ABSENT, ABSENT, FALSE),
              ObjDoc(ABSENT, JStr(<<"H","I","G","H">>), FALSE)}
        \cup {JList(<<>>), JList(<<JStr(CUSTOMER_IMPACT_LEVEL)>>), JStr(PING),
              JStr(CUSTOMER_IMPACT_LEVEL), JNum, JBool, JNull}

\* pieces of the answer text: a run of three backticks, a word, white space,
\* the text of one JSON document
BT == [t |-> "fence", doc |-> JNull]
WORD(w) == [t |-> w, doc |-> JNull]
WS == [t |-> " ", doc |-> JNull]
DOC(d) == [t |-> "doc", doc |-> d]

\* answer texts: bare, padded, fenced with and without the json tag, and
\* texts that are no JSON document after cleanup
Contents(echo) ==
    UNION {{<<DOC(d)>>,
            <<WS, DOC(d), WS>>,
            <<BT, WORD("json"), WS, DOC(d), WS, BT>>,
            <<WS, BT, WS, DOC(d), WS, BT, WS>>} : d \in Docs(echo)}
        \cup {<<>>,
              <<WORD("prose")>>,
              <<BT, WORD("JSON"), WS, DOC(EmptyDict), WS, BT>>,
              <<WORD("prose"), WS, DOC(EmptyDict)>>,
              <<DOC(EmptyDict), WS, DOC(EmptyDict)>>}

\* a response body that is no JSON at all
NOT_JSON == [k |-> "notjson", v |-> <<>>]

Completion(content) ==
    JObj([choices |-> JList(<<JObj([message |-> JObj([content |-> content])])>>)])

Bodies(echo) ==
    {NOT_JSON, EmptyDict, JList(<<>>),
     JObj([choices |-> JList(<<>>)]),
     JObj([choices |-> JList(<<JObj([message |-> EmptyDict])>>)]),
     Completion(JNull)}
        \cup {Completion(JStr(c)) : c \in Contents(echo)}

Responses(echo) ==
    {[status |-> s, body |-> NOT_JSON] : s \in {301, 404, 500}}
        \cup {[status |-> 200, body |-> b] : b \in Bodies(echo)}
        \cup {[status |-> 201, body |-> Completion(JStr(<<DOC(ObjDoc(echo, JStr(LOW), TRUE))>>))]}

NoResponse == [status |-> 0, body |-> NOT_JSON]

(***************************************************************************)
(* The steps of analyze_stripe_event as functions                          *)
(***************************************************************************)
\* content.replace("```json", "")
RECURSIVE ReplaceFenceJson(_)
ReplaceFenceJson(c) ==
    IF c = <<>> THEN <<>>
    ELSE IF Len(c) >= 2 /\ c[1] = BT /\ c[2] = WORD("json")
         THEN ReplaceFenceJson(SubSeq(c, 3, Len(c)))
         ELSE <<c[1]>> \o ReplaceFenceJson(Tail(c))

\* .replace("```", "")
ReplaceFence(c) == SelectSeq(c, LAMBDA x : x # BT)

\* .strip()
RECURSIVE Strip(_)
Strip(c) ==
    IF c = <<>> THEN <<>>
    ELSE IF c[1] = WS THEN Strip(Tail(c))
    ELSE IF c[Len(c)] = WS THEN Strip(SubSeq(c, 1, Len(c) - 1))
    ELSE c

cleaned_content(content) == Strip(ReplaceFence(ReplaceFenceJson(content)))

\* json.loads: the text is one JSON document, white space around it
\* allowed; anything else raises JSONDecodeError
Loads(text) ==
    LET toks == SelectSeq(text, LAMBDA x : x # WS)
    IN IF Len(toks) = 1 /\ toks[1].t = "doc" THEN toks[1].doc ELSE RAISED

\* result_json["choices"][0]["message"]["content"]
ContentOf(result_json) ==
    LET choices == SubKey(result_json, "choices")
        first == IF choices = RAISED THEN RAISED ELSE SubIdx(choices, 0)
        message == IF first = RAISED THEN RAISED ELSE SubKey(first, "message")
    IN IF message = RAISED THEN RAISED ELSE SubKey(message, "content")

\* NormalizedLevel without the call of lower()
NormalizedLevel_NoLower(level) ==
    IF level \in ImpactLevels THEN level ELSE MEDIUM

\* the lower-cased level, or "medium" when that is not in the closed set
NormalizedLevel(level) ==
    IF Lower(level) \in ImpactLevels THEN Lower(level) ELSE MEDIUM

\* the block under `if "customer_impact_level" in parsed_result`
\* up to `return parsed_result`
Normalized(parsed) ==
    IF InRaises(parsed) THEN RAISED
    ELSE IF ~In(CUSTOMER_IMPACT_LEVEL, "customer_impact_level", parsed) THEN parsed
    ELSE IF SubKey(parsed, "customer_impact_level") = RAISED THEN RAISED
    ELSE IF parsed.v["customer_impact_level"].k # "str" THEN RAISED
    ELSE JObj([parsed.v EXCEPT !["customer_impact_level"] =
                  JStr(NormalizedLevel(parsed.v["customer_impact_level"].v))])

\* FallbackImpact with the invoice.upcoming test moved to the front
FallbackImpact_UpcomingFirst(et) ==
    IF In(INVOICE_UPCOMING, "invoice.upcoming", et) THEN LOW
    ELSE IF In(PAYMENT_FAILED, "payment_failed", et) THEN HIGH
    ELSE IF In(DISPUTE, "dispute", et) THEN HIGH
    ELSE MEDIUM

\* the risk level mapping of the except-handler
FallbackImpact(et) ==
    IF In(PAYMENT_FAILED, "payment_failed", et) THEN HIGH
    ELSE IF In(DISPUTE, "dispute", et) THEN HIGH
    ELSE IF In(INVOICE_UPCOMING, "invoice.upcoming", et) THEN LOW
    ELSE MEDIUM

fallback_response(et) ==
    JObj([event_type |-> et,
          summary |-> JStr(SummaryPrefix \o Format(et) \o SummarySuffix),
          root_cause |-> JStr(ROOT_CAUSE_NA),
          customer_impact_level |-> JStr(FallbackImpact(et)),
          recommended_actions |-> JList(<<JStr(CHECK_DASHBOARD)>>)])

(***************************************************************************)
(* State                                                                   *)
(***************************************************************************)
VARIABLES
    OPENROUTER_API_KEY, \* the credential read at import time
    pc,                 \* where the request being served stands
    event,              \* the request body handed to analyze_stripe_event
    event_type,         \* local of analyze_stripe_event
    object_id,          \* local of analyze_stripe_event
    requests,           \* POSTs sent to the completion service for this event
    response,           \* the answer of the completion service
    parsed_result,      \* local of analyze_stripe_event
    cause,              \* the exception the except-handler logged
    result              \* what analyze_stripe_event returned or raised

vars == <<OPENROUTER_API_KEY, pc, event, event_type, object_id, requests,
          response, parsed_result, cause, result>>

NoResult == [kind |-> "none", value |-> JNull]
Returned(x) == [kind |-> "returned", value |-> x]
Raised(exc) == [kind |-> "raised", value |-> JStr(<<exc>>)]

Init ==
    /\ OPENROUTER_API_KEY \in ApiKeys
    /\ pc = "idle"
    /\ event = EmptyDict
    /\ event_type = JNull
    /\ object_id = JNull
    /\ requests = 0
    /\ response = NoResponse
    /\ parsed_result = JNull
    /\ cause = "none"
    /\ result = NoResult

\* explain_event: the body parsed, analyze_stripe_event is called with it
Receive ==
    /\ pc = "idle"
    /\ \E body \in Events : event' = body
    /\ pc' = "extract"
    /\ UNCHANGED <<OPENROUTER_API_KEY, event_type, object_id, requests,
                   response, parsed_result, cause, result>>

\* "1. Extract Metadata": outside the try block, so an AttributeError of a
\* .get on a value that is no dict leaves analyze_stripe_event
ExtractMetadata ==
    /\ pc = "extract"
    /\ LET data == Get(event, "data", EmptyDict)
           data_object == IF data = RAISED THEN RAISED
                          ELSE Get(data, "object", EmptyDict)
           id == IF data_object = RAISED THEN RAISED
                 ELSE Get(data_object, "id", JStr(UNKNOWN_ID))
       IN /\ event_type' = Get(event, "type", JStr(UNKNOWN_TYPE))
          /\ IF id = RAISED
             THEN /\ pc' = "raised"
                  /\ result' = Raised("AttributeError")
                  /\ object_id' = object_id
             ELSE /\ pc' = "check_key"
                  /\ object_id' = id
                  /\ result' = result
    /\ UNCHANGED <<OPENROUTER_API_KEY, event, requests, response,
                   parsed_result, cause>>

\* `if not OPENROUTER_API_KEY: raise ValueError("Missing API Key")`
CheckKey ==
    /\ pc = "check_key"
    /\ IF OPENROUTER_API_KEY = JNull \/ OPENROUTER_API_KEY = JStr(<<>>)
       THEN pc' = "fallback" /\ cause' = "missing_key"
       ELSE pc' = "post" /\ cause' = cause
    /\ UNCHANGED <<OPENROUTER_API_KEY, event, event_type, object_id, requests,
                   response, parsed_result, result>>

\* client.post(..., timeout=30.0): the request goes out and the coroutine
\* waits
Post ==
    /\ pc = "post"
    /\ requests' = requests + 1
    /\ pc' = "waiting"
    /\ UNCHANGED <<OPENROUTER_API_KEY, event, event_type, object_id, response,
                   parsed_result, cause, result>>

\* the service answers
ServiceReply ==
    /\ pc = "waiting"
    /\ \E r \in Responses(event_type) : response' = r
    /\ pc' = "raise_for_status"
    /\ UNCHANGED <<OPENROUTER_API_KEY, event, event_type, object_id, requests,
                   parsed_result, cause, result>>

\* the connection fails: client.post raises
NetworkError ==
    /\ pc = "waiting"
    /\ pc' = "fallback"
    /\ cause' = "network_error"
    /\ UNCHANGED <<OPENROUTER_API_KEY, event, event_type, object_id, requests,
                   response, parsed_result, result>>

\* no answer within 30 seconds: client.post raises
Timeout ==
    /\ pc = "waiting"
    /\ pc' = "fallback"
    /\ cause' = "timeout"
    /\ UNCHANGED <<OPENROUTER_API_KEY, event, event_type, object_id, requests,
                   response, parsed_result, result>>

\* response.raise_for_status()
RaiseForStatus ==
    /\ pc = "raise_for_status"
    /\ IF response.status >= 200 /\ response.status <= 299
       THEN pc' = "parse" /\ cause' = cause
       ELSE pc' = "fallback" /\ cause' = "http_status"
    /\ UNCHANGED <<OPENROUTER_API_KEY, event, event_type, object_id, requests,
                   response, parsed_result, result>>

\* response.json(), the content of the first choice, its cleanup and
\* json.loads
ParseResponse ==
    /\ pc = "parse"
    /\ LET content == IF response.body = NOT_JSON THEN RAISED
                      ELSE ContentOf(response.body)
       IN IF response.body = NOT_JSON
          THEN pc' = "fallback" /\ cause' = "body_not_json"
                 /\ parsed_result' = parsed_result
          ELSE IF content = RAISED
          THEN pc' = "fallback" /\ cause' = "no_content"
                 /\ parsed_result' = parsed_result
          ELSE IF content.k # "str"
          THEN pc' = "fallback" /\ cause' = "content_not_str"
                 /\ parsed_result' = parsed_result
          ELSE IF Loads(cleaned_content(content.v)) = RAISED
          THEN pc' = "fallback" /\ cause' = "json_decode"
                 /\ parsed_result' = parsed_result
          ELSE pc' = "normalize" /\ cause' = cause
                 /\ parsed_result' = Loads(cleaned_content(content.v))
    /\ UNCHANGED <<OPENROUTER_API_KEY, event, event_type, object_id, requests,
                   response, result>>

\* "normalized validation of impact level" and `return parsed_result`
Normalize ==
    /\ pc = "normalize"
    /\ IF Normalized(parsed_result) = RAISED
       THEN /\ pc' = "fallback"
            /\ cause' = "normalize_error"
            /\ UNCHANGED <<parsed_result, result>>
       ELSE /\ pc' = "returned"
            /\ parsed_result' = Normalized(parsed_result)
            /\ result' = Returned(Normalized(parsed_result))
            /\ cause' = cause
    /\ UNCHANGED <<OPENROUTER_API_KEY, event, event_type, object_id, requests,
                   response>>

\* `except Exception`: "4. Fallback Logic"; a TypeError of `in` inside the
\* handler leaves analyze_stripe_event
Fallback ==
    /\ pc = "fallback"
    /\ IF InRaises(event_type)
       THEN pc' = "raised" /\ result' = Raised("TypeError")
       ELSE pc' = "returned" /\ result' = Returned(fallback_response(event_type))
    /\ UNCHANGED <<OPENROUTER_API_KEY, event, event_type, object_id, requests,
                   response, parsed_result, cause>>

\* explain_event hands the result (or the exception) to the framework; the
\* locals of the call are gone and the server is ready for the next request
Finish ==
    /\ pc \in {"returned", "raised"}
    /\ pc' = "idle"
    /\ event' = EmptyDict
    /\ event_type' = JNull
    /\ object_id' = JNull
    /\ requests' = 0
    /\ response' = NoResponse
    /\ parsed_result' = JNull
    /\ cause' = "none"
    /\ result' = NoResult
    /\ UNCHANGED OPENROUTER_API_KEY

Next ==
    \/ Receive
    \/ ExtractMetadata
    \/ CheckKey
    \/ Post
    \/ ServiceReply
    \/ NetworkError
    \/ Timeout
    \/ RaiseForStatus
    \/ ParseResponse
    \/ Normalize
    \/ Fallback
    \/ Finish

Spec == Init /\ [][Next]_vars

(***************************************************************************)
(* Vocabulary of the properties                                            *)
(***************************************************************************)
\* the analysis has ended, by a return or by an exception
Ended == pc \in {"returned", "raised"}

\* the "type" field of the request body, or the sentinel when it is absent
InputType == IF "type" \in DOMAIN event.v THEN event.v["type"] ELSE JStr(UNKNOWN_TYPE)

\* a credential is configured
Configured == OPENROUTER_API_KEY.k = "str" /\ OPENROUTER_API_KEY.v # <<>>

\* the external path failed: the except-handler was entered
ExternalPathFailed == cause # "none"

\* the request body has the shape the data model describes: a string (or
\* absent) type, an object (or absent) data and data.object
WellFormed ==
    /\ InputType.k = "str"
    /\ "data" \in DOMAIN event.v =>
          /\ event.v["data"].k = "obj"
          /\ "object" \in DOMAIN event.v["data"].v =>
                event.v["data"].v["object"].k = "obj"

\* the impact the fallback table gives to a type string
TableImpact(s) ==
    IF Contains(PAYMENT_FAILED, s) THEN HIGH
    ELSE IF Contains(DISPUTE, s) THEN HIGH
    ELSE IF Contains(INVOICE_UPCOMING, s) THEN LOW
    ELSE MEDIUM

\* the fallback result for an event type
FallbackResultFor(t) ==
    JObj([event_type |-> t,
          summary |-> JStr(SummaryPrefix \o Format(t) \o SummarySuffix),
          root_cause |-> JStr(ROOT_CAUSE_NA),
          customer_impact_level |->
              JStr(IF t.k = "str" THEN TableImpact(t.v) ELSE MEDIUM),
          recommended_actions |-> JList(<<JStr(CHECK_DASHBOARD)>>)])

\* the service answered 2xx with a textual content
HasContent ==
    /\ response.status \in 200..299
    /\ response.body # NOT_JSON
    /\ ContentOf(response.body) # RAISED
    /\ ContentOf(response.body).k = "str"

\* what the cleaned content parses to (RAISED: no valid JSON)
AnswerDoc == Loads(cleaned_content(ContentOf(response.body).v))

\* the value analyze_stripe_event returned has key `key`
ResultHas(key) ==
    /\ result.kind = "returned"
    /\ result.value.k = "obj"
    /\ key \in DOMAIN result.value.v

(***************************************************************************)
(* Properties                                                              *)
(***************************************************************************)
\* C1: whenever the external path has failed, whatever the cause, the
\* analysis ends by returning exactly the fallback result for the event's
\* type and raises nothing.
C1_FailureGivesFallback ==
    (Ended /\ ExternalPathFailed) =>
        result = Returned(FallbackResultFor(InputType))

\* C2: for a well-formed event and any answer of the service, the returned
\* result has a customer_impact_level and it is one of low, medium, high.
C2_ImpactInClosedSet ==
    (pc = "returned" /\ WellFormed) =>
        /\ ResultHas("customer_impact_level")
        /\ result.value.v["customer_impact_level"].k = "str"
        /\ result.value.v["customer_impact_level"].v \in ImpactLevels

\* C3: on the success path and on the fallback path the event_type of the
\* returned result is the input event's type, or the sentinel.
C3_EventTypeRoundTrip ==
    pc = "returned" =>
        /\ ResultHas("event_type")
        /\ result.value.v["event_type"] = InputType

\* C4: an analysis never has more than one request out, and when it has
\* ended it has sent 0 requests without a credential and exactly 1 with one.
C4_RequestCount ==
    /\ requests <= 1
    /\ ~Configured => requests = 0
    /\ (Ended /\ Configured) => requests = 1

\* C5: the impact of a fallback result is decided by the type string alone:
\* payment_failed, then dispute give high, then invoice.upcoming gives low,
\* else medium; a type with invoice.upcoming and one of the high markers is
\* high, the sentinel of an absent type is medium.
C5_FallbackTable ==
    (pc = "returned" /\ ExternalPathFailed /\ InputType.k = "str") =>
        /\ ResultHas("customer_impact_level")
        /\ result.value.v["customer_impact_level"] = JStr(TableImpact(InputType.v))
        /\ (Contains(INVOICE_UPCOMING, InputType.v)
              /\ (Contains(DISPUTE, InputType.v) \/ Contains(PAYMENT_FAILED, InputType.v)))
             => result.value.v["customer_impact_level"] = JStr(HIGH)
        /\ "type" \notin DOMAIN event.v
             => result.value.v["customer_impact_level"] = JStr(MEDIUM)

\* a fallback result was returned for a type that holds both
\* invoice.upcoming and dispute, and its impact is high
C5_Witness ==
    /\ pc = "returned"
    /\ ExternalPathFailed
    /\ InputType.k = "str"
    /\ Contains(INVOICE_UPCOMING, InputType.v)
    /\ Contains(DISPUTE, InputType.v)
    /\ ResultHas("customer_impact_level")
    /\ result.value.v["customer_impact_level"] = JStr(HIGH)

\* C6: metadata extraction raises for no JSON-object payload, and once it is
\* done the type and the id are the payload's values or their defaults.
C6_ExtractionNeverFails ==
    /\ result # Raised("AttributeError")
    /\ pc = "check_key" =>
          /\ event_type = InputType
          /\ object_id.k # "raise"

\* C7: the fallback never fails: once the except-handler is entered the
\* analysis ends with a complete fallback result, whatever the type value.
C7_FallbackNeverFails ==
    /\ result # Raised("TypeError")
    /\ (Ended /\ ExternalPathFailed) =>
          /\ ResultHas("event_type")
          /\ result.value.v["event_type"] = InputType
          /\ ResultHas("summary")
          /\ Contains(Format(InputType), result.value.v["summary"].v)
          /\ result.value.v["root_cause"] = JStr(ROOT_CAUSE_NA)
          /\ result.value.v["customer_impact_level"].v \in ImpactLevels
          /\ result.value.v["recommended_actions"] = JList(<<JStr(CHECK_DASHBOARD)>>)

\* C8: after a 2xx answer whose cleaned content is no JSON object, what is
\* returned is the fallback result for the event's type.
C8_NonObjectGivesFallback ==
    (pc = "returned" /\ HasContent /\ AnswerDoc.k # "obj") =>
        result = Returned(FallbackResultFor(InputType))

\* the parsed object with only customer_impact_level changed: lower-cased
\* when that gives low, medium or high, else medium
C9_Expected(doc) ==
    IF "customer_impact_level" \notin DOMAIN doc.v THEN doc
    ELSE LET low == Lower(doc.v["customer_impact_level"].v)
         IN JObj([key \in DOMAIN doc.v |->
                    IF key # "customer_impact_level" THEN doc.v[key]
                    ELSE IF low = LOW THEN JStr(LOW)
                    ELSE IF low = MEDIUM THEN JStr(MEDIUM)
                    ELSE IF low = HIGH THEN JStr(HIGH)
                    ELSE JStr(MEDIUM)])

\* the JSON document of an answer text that is that document alone or
\* wrapped in fence markers (with or without the json tag), white space
\* aside; RAISED for any other text
C9_Unwrapped(c) ==
    LET core == SelectSeq(c, LAMBDA x : x # WS)
    IN IF Len(core) = 1 /\ core[1].t = "doc" THEN core[1].doc
       ELSE IF Len(core) = 3 /\ core[1] = BT /\ core[2].t = "doc" /\ core[3] = BT
       THEN core[2].doc
       ELSE IF Len(core) = 4 /\ core[1] = BT /\ core[2] = WORD("json")
                 /\ core[3].t = "doc" /\ core[4] = BT
       THEN core[3].doc
       ELSE RAISED

\* the answer is on the success path: 2xx, a content that is a JSON
\* object, fenced or not, whose customer_impact_level is absent or a string
C9_OnSuccessPath ==
    /\ HasContent
    /\ C9_Unwrapped(ContentOf(response.body).v).k = "obj"
    /\ "customer_impact_level" \in DOMAIN C9_Unwrapped(ContentOf(response.body).v).v
          => C9_Unwrapped(ContentOf(response.body).v).v["customer_impact_level"].k = "str"

C10_TimeoutGivesFallback ==
    /\ pc # "raised"
    /\ (Ended /\ cause = "timeout") =>
          /\ requests = 1
          /\ result = Returned(FallbackResultFor(InputType))
====
